---------------------------- MODULE Spec2Model ----------------------------
(***************************************************************************)
(* A model of read_input.py: the spreadsheet/PDF extraction pipeline.      *)
(*                                                                         *)
(* Python values are records [t, s, n]: None, a str (s is its sequence of  *)
(* characters, each a one-character string) or an int.  Python lists that  *)
(* are mutated through a reference (the 13-field account records) live in  *)
(* `heap` and are named by their address; lists that are only built and    *)
(* rebound are plain sequences.                                            *)
(***************************************************************************)
EXTENDS Naturals, Sequences, FiniteSets, TLC

(***************************************************************************)
(* Bounds of the model.                                                    *)
(***************************************************************************)
\* lines of text in one PDF rectangle
MaxLines == 2
\* characters of the text handed to clean_extracted_text on its own
MaxText == 3
\* lists handed to combine_and_pad_lists on its own, and their length
MaxSeqs == 3
MaxLen == 2

(***************************************************************************)
(* Python values.                                                          *)
(***************************************************************************)
None == [t |-> "None", s |-> <<>>, n |-> 0]
PyStr(chars) == [t |-> "str", s |-> chars, n |-> 0]
PyInt(k) == [t |-> "int", s |-> <<>>, n |-> k]

DigitChars == <<"0", "1", "2", "3", "4", "5", "6", "7", "8", "9">>
Whitespace == {" ", "\n"}

\* str.isdigit() of one character
IsDigit(c) == \E d \in 1..Len(DigitChars) : DigitChars[d] = c

RECURSIVE NatToChars(_)
NatToChars(k) ==
    IF k < 10 THEN <<DigitChars[k + 1]>>
    ELSE Append(NatToChars(k \div 10), DigitChars[(k % 10) + 1])

\* str(v) of a value that is not None
str(v) == IF v.t = "str" THEN v.s ELSE NatToChars(v.n)

RECURSIVE lstrip(_)
lstrip(s) == IF s # <<>> /\ Head(s) \in Whitespace THEN lstrip(Tail(s)) ELSE s

RECURSIVE rstrip(_)
rstrip(s) ==
    IF s # <<>> /\ s[Len(s)] \in Whitespace THEN rstrip(SubSeq(s, 1, Len(s) - 1)) ELSE s

\* str.strip()
strip(s) == rstrip(lstrip(s))

RECURSIVE SplitAcc(_, _, _)
SplitAcc(s, cur, acc) ==
    IF s = <<>> THEN (IF cur = <<>> THEN acc ELSE Append(acc, cur))
    ELSE IF Head(s) = "\n" THEN SplitAcc(Tail(s), <<>>, Append(acc, cur))
    ELSE SplitAcc(Tail(s), Append(cur, Head(s)), acc)

\* str.splitlines(): no entry for the empty string, none after a final line break
splitlines(s) == SplitAcc(s, <<>>, <<>>)

RECURSIVE join(_, _)
\* sep.join(parts)
join(sep, parts) ==
    IF parts = <<>> THEN <<>>
    ELSE IF Len(parts) = 1 THEN parts[1]
    ELSE parts[1] \o sep \o join(sep, Tail(parts))

\* entry.replace(old, new) for a one-character old; new is a sequence of characters
RECURSIVE replace(_, _, _)
replace(s, old, new) ==
    IF s = <<>> THEN <<>>
    ELSE (IF Head(s) = old THEN new ELSE <<Head(s)>>) \o replace(Tail(s), old, new)

\* [f(x) for x in s]
RECURSIVE MapStrip(_)
MapStrip(lines) ==
    IF lines = <<>> THEN <<>> ELSE <<strip(Head(lines))>> \o MapStrip(Tail(lines))

HasDigit(s) == \E k \in 1..Len(s) : IsDigit(s[k])

(***************************************************************************)
(* clean_extracted_text                                                    *)
(***************************************************************************)
\* the set literal {'.', '€', 'EUR'}: its third member is a three-character string
AllowedSymbols == {".", "€", "EUR"}

KeepChar(c) == IsDigit(c) \/ c \in AllowedSymbols

\* the comma is left in place
CleanEntry_KeepComma(entry) ==
    SelectSeq(replace(entry, " ", <<>>), KeepChar)

\* lines 79-81: one entry of the numeric path
CleanEntry(entry) ==
    SelectSeq(replace(replace(entry, " ", <<>>), ",", <<".">>), KeepChar)

RECURSIVE CleanLines(_)
\* lines 77-84
CleanLines(lines) ==
    IF lines = <<>> THEN <<>>
    ELSE LET entry == CleanEntry(Head(lines))
         IN (IF HasDigit(entry) THEN <<entry>> ELSE <<>>) \o CleanLines(Tail(lines))

NonEmpty(s) == s # <<>>

\* line 72
StrippedLines(text) == SelectSeq(MapStrip(splitlines(text)), NonEmpty)

clean_extracted_text(text, is_account) ==
    IF text = <<>> THEN <<>>
    ELSE IF is_account THEN StrippedLines(text)
    ELSE CleanLines(StrippedLines(text))

(***************************************************************************)
(* Configuration (lines 6-28).                                             *)
(***************************************************************************)
EXCEL_ACCOUNT_CELL == [skiprows |-> 0, nrows |-> 1, usecols |-> "I"]
EXCEL_DATA_RANGE == [skiprows |-> 3, nrows |-> 1, usecols |-> "L:M"]
EXCEL_VALUE_COL == "Coût d'acquisition"
EXCEL_CHANGE_COL == "Valorisation "
PDF_RECTANGLES == <<"value", "change", "account_num">>
\* num_pages=1 of the call in main
NUM_PAGES == 1
\* [None] * 13
NFIELDS == 13

Key193 == <<"1", "9", "3">>
Key100 == <<"1", "0", "0">>

\* the literals of the two templates; a literal no code takes apart is one token
Template193 ==
    << PyStr(<<"Juandi">>), PyStr(<<"Debit account">>),
       PyStr(<<"1", "9", "3", "0", "0", "0">>), PyStr(<<"CIC">>), PyStr(<<"Funds">>),
       PyStr(<<"A123">>), PyStr(<<>>), PyStr(<<"EUR">>), PyStr(<<"Medellin">>),
       PyStr(<<"Fund XYZ">>), None, None, PyStr(<<"Finance">>) >>

Template100 ==
    << PyStr(<<"Juanse">>), PyStr(<<"Credit account">>),
       PyStr(<<"1", "0", "0", "1", "2", "3">>), PyStr(<<"EXEX">>), PyStr(<<"Stocks">>),
       PyStr(<<"B456">>), PyStr(<<>>), PyStr(<<"EUR">>), PyStr(<<"Tolima">>),
       PyStr(<<"Stock ABC">>), None, None, PyStr(<<"Technology">>) >>

\* the two list objects the module creates at import: addresses 1 and 2 of the heap
InitHeap == <<Template193, Template100>>

\* the dict: key -> the list object it holds
LOOKUP_TABLE == (Key193 :> 1) @@ (Key100 :> 2)

(***************************************************************************)
(* read_excel_data                                                         *)
(***************************************************************************)
NoneDF == [t |-> "None", columns |-> <<>>, rows |-> <<>>]
DataFrame(columns, rows) == [t |-> "df", columns |-> columns, rows |-> rows]

\* pd.read_excel / pl.from_pandas: the part of the sheet the arguments select
pd_read_excel(file, kwargs) ==
    IF kwargs.usecols = "I" THEN file.sheet_I ELSE file.sheet_LM

IsCellQuery(kwargs) == kwargs.nrows = 1 /\ kwargs.usecols = "I"

\* df.empty
DfEmpty(df) == df.rows = <<>> \/ df.columns = <<>>

\* the FileNotFoundError leaves the function
read_excel_data_Raises(file, kwargs) ==
    IF ~file.exists
    THEN [ret |-> IF IsCellQuery(kwargs) THEN None ELSE NoneDF,
          printed |-> <<>>, raised |-> TRUE]
    ELSE LET df_pandas == pd_read_excel(file, kwargs)
         IN [ret |-> IF IsCellQuery(kwargs)
                     THEN (IF ~DfEmpty(df_pandas) THEN df_pandas.rows[1][1] ELSE None)
                     ELSE df_pandas,
             printed |-> <<>>, raised |-> FALSE]

read_excel_data(file, kwargs) ==
    IF ~file.exists
    THEN [ret |-> IF IsCellQuery(kwargs) THEN None ELSE NoneDF,
          printed |-> <<"Error: Excel file not found">>, raised |-> FALSE]
    ELSE LET df_pandas == pd_read_excel(file, kwargs)
         IN [ret |-> IF IsCellQuery(kwargs)
                     THEN (IF ~DfEmpty(df_pandas) THEN df_pandas.rows[1][1] ELSE None)
                     ELSE df_pandas,
             printed |-> <<>>, raised |-> FALSE]

(***************************************************************************)
(* lookup_account_info                                                     *)
(***************************************************************************)
\* [None] * 13
AllNone == [k \in 1..NFIELDS |-> None]

\* line 56
AccountStr(account_num) == strip(str(account_num))

\* line 57
FirstThree(account_str) ==
    IF Len(account_str) >= 3 THEN SubSeq(account_str, 1, 3) ELSE account_str

\* the account number lands in the field after "Nom et N. de compte"
MissRecord_NextField(default_info, account_str) ==
    [default_info EXCEPT ![4] = PyStr(account_str)]

\* line 64: default_info[2] = account_str
MissRecord(default_info, account_str) ==
    [default_info EXCEPT ![3] = PyStr(account_str)]

\* lines 46-65.  h is the heap at the call; the result is the heap after it and the
\* address of the list returned.  A hit returns the table's own list object.
lookup_account_info(account_num, lookup_table, h) ==
    LET h1 == Append(h, AllNone)
        default_info == Len(h1)
    IN IF account_num = None THEN [heap |-> h1, ret |-> default_info]
       ELSE LET account_str == AccountStr(account_num)
                first_three_digits == FirstThree(account_str)
            IN IF first_three_digits \in DOMAIN lookup_table
               THEN [heap |-> h1, ret |-> lookup_table[first_three_digits]]
               ELSE [heap |-> [h1 EXCEPT ![default_info] = MissRecord(@, account_str)],
                     ret |-> default_info]

(***************************************************************************)
(* extract_pdf_data                                                        *)
(***************************************************************************)
Min(a, b) == IF a <= b THEN a ELSE b

\* page.get_textbox(rect): the text the page holds in the rectangle
get_textbox(page, key) == page[key]

RECURSIVE ExtractPages(_, _, _)
\* lines 92-96, for the pages not yet scanned
ExtractPages(pages, n, data) ==
    IF n = 0 \/ pages = <<>> THEN data
    ELSE ExtractPages(Tail(pages), n - 1,
            [key \in DOMAIN data |->
                data[key] \o splitlines(strip(get_textbox(Head(pages), key)))])

\* lines 86-103.  handler is the except clause that catches the error fitz.open
\* raises for a missing file: which one depends on the class the library raises.
extract_pdf_data(file, rectangles, num_pages, handler) ==
    LET empty == [key \in {rectangles[k] : k \in 1..Len(rectangles)} |-> <<>>]
    IN IF ~file.exists
       THEN [ret |-> empty,
             printed |-> IF handler = "FileNotFoundError"
                         THEN <<"Error: PDF file not found">>
                         ELSE <<"Error processing PDF">>,
             raised |-> FALSE]
       ELSE [ret |-> ExtractPages(file.pages, Min(num_pages, Len(file.pages)), empty),
             printed |-> <<>>, raised |-> FALSE]

(***************************************************************************)
(* combine_and_pad_lists                                                   *)
(***************************************************************************)
RECURSIVE MaxLength(_)
\* max(len(lst) for lst in lists), lists not empty
MaxLength(lists) ==
    IF Len(lists) = 1 THEN Len(lists[1])
    ELSE LET m == MaxLength(Tail(lists))
         IN IF Len(lists[1]) >= m THEN Len(lists[1]) ELSE m

\* [None] * k
Nones(k) == [j \in 1..k |-> None]

\* the padding is cut to the first list's length
combine_and_pad_lists_FirstLen(lists) ==
    IF lists = <<>> THEN [args |-> lists, ret |-> <<>>]
    ELSE LET max_length == Len(lists[1])
         IN [args |-> lists,
             ret |-> [j \in 1..Len(lists) |->
                        lists[j] \o Nones(IF max_length >= Len(lists[j])
                                          THEN max_length - Len(lists[j]) ELSE 0)]]

\* lines 105-114.  args is the argument's lists after the call (lst + [...] builds a
\* new list and leaves lst alone), ret the list returned.
combine_and_pad_lists(lists) ==
    IF lists = <<>> THEN [args |-> lists, ret |-> <<>>]
    ELSE LET max_length == MaxLength(lists)
         IN [args |-> lists,
             ret |-> [j \in 1..Len(lists) |->
                        lists[j] \o Nones(max_length - Len(lists[j]))]]

(***************************************************************************)
(* The input files the model runs the program on.                          *)
(***************************************************************************)
\* the sequences over S of length at most n
SeqsUpTo(S, n) == UNION {[1..k -> S] : k \in 0..n}

\* the texts a rectangle can hold: at most MaxLines of the given lines
RectTexts(lines) == {join(<<"\n">>, ls) : ls \in SeqsUpTo(lines, MaxLines)}

ValueLines == { <<"1", ".", "5", "0", "0", ",", "0", "0">>, <<"a", "b">> }
ChangeLines == { <<"7", ",", "5">> }
AccountLines ==
    { <<"1", "0", "0", "1", "2", "3", "4", "5", "6">>,
      <<"1", "9", "3", "0", "0", "0">>,
      <<"9", "9", "9", "9", "9", "9">> }

Pages ==
    [value : RectTexts(ValueLines), change : RectTexts(ChangeLines),
     account_num : RectTexts(AccountLines)]

\* the documents: none, or one page (num_pages=1 scans the first page only)
MissingPdf == [exists |-> FALSE, pages |-> <<>>]
PdfFiles == {MissingPdf} \cup {[exists |-> TRUE, pages |-> <<p>>] : p \in Pages}

\* cells of column I: a text, two numbers, a text with blanks around a short number
AccountCells ==
    { PyStr(Key193), PyInt(100), PyInt(999), PyStr(<<" ", "9", "9", " ">>) }

ExcelQuantity == PyInt(1000)
ExcelValorisation == PyInt(2000)

SheetsI ==
    {DataFrame(<<"I">>, <<>>)} \cup {DataFrame(<<"I">>, << <<c>> >>) : c \in AccountCells}

SheetsLM ==
    { DataFrame(<<EXCEL_VALUE_COL, EXCEL_CHANGE_COL>>, <<>>),
      DataFrame(<<EXCEL_VALUE_COL, EXCEL_CHANGE_COL>>,
                << <<ExcelQuantity, ExcelValorisation>> >>),
      DataFrame(<<EXCEL_CHANGE_COL>>, << <<ExcelValorisation>> >>) }

MissingExcel ==
    [exists |-> FALSE, sheet_I |-> DataFrame(<<>>, <<>>), sheet_LM |-> DataFrame(<<>>, <<>>)]
ExcelFiles ==
    {MissingExcel} \cup [exists : {TRUE}, sheet_I : SheetsI, sheet_LM : SheetsLM]

\* the texts and lists the two helpers are run on by themselves
TextChars == {"1", ".", ",", " ", "E", "a", "\n", "€"}
Texts == SeqsUpTo(TextChars, MaxText)
PadElems == {PyInt(1), None}
PadInputs == SeqsUpTo(SeqsUpTo(PadElems, MaxLen), MaxSeqs)

(***************************************************************************)
(* State.                                                                  *)
(***************************************************************************)
VARIABLES
    pc,                 \* the statement main (or the helper run alone) is at
    excel_file,         \* the spreadsheet at EXCEL_PATH
    pdf_file,           \* the document at PDF_PATH
    heap,               \* the 13-field list objects, by address
    excel_account, df_excel, excel_account_info_list,
    pdf_raw_data, cleaned_pdf_value, cleaned_pdf_change, cleaned_pdf_accounts,
    combined_quantity, combined_prix_revient, combined_accounts_identifiers,
    final_data_rows, max_rows, i, account_id, account_template,
    printed,            \* the lines written to standard output
    csv_file,           \* extracted_data_with_full_details.csv
    clean_text, clean_is_account, clean_ret,
    pad_in, pad_lists, pad_ret

vars ==
    << pc, excel_file, pdf_file, heap, excel_account, df_excel,
       excel_account_info_list, pdf_raw_data, cleaned_pdf_value, cleaned_pdf_change,
       cleaned_pdf_accounts, combined_quantity, combined_prix_revient,
       combined_accounts_identifiers, final_data_rows, max_rows, i, account_id,
       account_template, printed, csv_file, clean_text, clean_is_account, clean_ret,
       pad_in, pad_lists, pad_ret >>

helperVars == << clean_text, clean_is_account, clean_ret, pad_in, pad_lists, pad_ret >>

mainLocals ==
    << excel_account, df_excel, excel_account_info_list, pdf_raw_data,
       cleaned_pdf_value, cleaned_pdf_change, cleaned_pdf_accounts, combined_quantity,
       combined_prix_revient, combined_accounts_identifiers, final_data_rows, max_rows,
       i, account_id, account_template, printed, csv_file >>

NotWritten == [written |-> FALSE, rows |-> <<>>]

\* main's locals before their first assignment, the heap as the import leaves it
InitLocals ==
    /\ heap = InitHeap
    /\ excel_account = None
    /\ df_excel = NoneDF
    /\ excel_account_info_list = 0
    /\ pdf_raw_data = [key \in {"value", "change", "account_num"} |-> <<>>]
    /\ cleaned_pdf_value = <<>>
    /\ cleaned_pdf_change = <<>>
    /\ cleaned_pdf_accounts = <<>>
    /\ combined_quantity = <<>>
    /\ combined_prix_revient = <<>>
    /\ combined_accounts_identifiers = <<>>
    /\ final_data_rows = <<>>
    /\ max_rows = 0
    /\ i = 0
    /\ account_id = None
    /\ account_template = 0
    /\ printed = <<>>
    /\ csv_file = NotWritten

InitHelpers ==
    /\ clean_text = <<>>
    /\ clean_is_account = FALSE
    /\ clean_ret = <<>>
    /\ pad_in = <<>>
    /\ pad_lists = <<>>
    /\ pad_ret = <<>>

Init ==
    /\ pc = "read_excel"
    /\ excel_file \in ExcelFiles
    /\ pdf_file \in PdfFiles
    /\ InitLocals
    /\ InitHelpers

(***************************************************************************)
(* main, statement by statement.                                           *)
(***************************************************************************)
\* lines 120-123
ReadExcel ==
    /\ pc = "read_excel"
    /\ LET r1 == read_excel_data(excel_file, EXCEL_ACCOUNT_CELL)
           r2 == read_excel_data(excel_file, EXCEL_DATA_RANGE)
       IN IF r1.raised \/ r2.raised
          THEN /\ pc' = "crashed"
               /\ UNCHANGED << excel_account, df_excel, printed >>
          ELSE /\ pc' = "lookup_excel"
               /\ excel_account' = r1.ret
               /\ df_excel' = r2.ret
               /\ printed' = printed \o r1.printed \o r2.printed
                                \o <<"Account from Excel">>
    /\ UNCHANGED << excel_file, pdf_file, heap, excel_account_info_list, pdf_raw_data,
                    cleaned_pdf_value, cleaned_pdf_change, cleaned_pdf_accounts,
                    combined_quantity, combined_prix_revient,
                    combined_accounts_identifiers, final_data_rows, max_rows, i,
                    account_id, account_template, csv_file, helperVars >>

\* lines 125-126
LookupExcel ==
    /\ pc = "lookup_excel"
    /\ LET r == lookup_account_info(excel_account, LOOKUP_TABLE, heap)
       IN /\ heap' = r.heap
          /\ excel_account_info_list' = r.ret
    /\ printed' = Append(printed, "Excel account lookup (partial)")
    /\ pc' = "extract_pdf"
    /\ UNCHANGED << excel_file, pdf_file, excel_account, df_excel, pdf_raw_data,
                    cleaned_pdf_value, cleaned_pdf_change, cleaned_pdf_accounts,
                    combined_quantity, combined_prix_revient,
                    combined_accounts_identifiers, final_data_rows, max_rows, i,
                    account_id, account_template, csv_file, helperVars >>

\* line 129
ExtractPdf ==
    /\ pc = "extract_pdf"
    /\ \E handler \in {"FileNotFoundError", "Exception"} :
         LET r == extract_pdf_data(pdf_file, PDF_RECTANGLES, NUM_PAGES, handler)
         IN IF r.raised
            THEN /\ pc' = "crashed"
                 /\ UNCHANGED << pdf_raw_data, printed >>
            ELSE /\ pc' = "clean"
                 /\ pdf_raw_data' = r.ret
                 /\ printed' = printed \o r.printed
    /\ UNCHANGED << excel_file, pdf_file, heap, excel_account, df_excel,
                    excel_account_info_list, cleaned_pdf_value, cleaned_pdf_change,
                    cleaned_pdf_accounts, combined_quantity, combined_prix_revient,
                    combined_accounts_identifiers, final_data_rows, max_rows, i,
                    account_id, account_template, csv_file, helperVars >>

\* lines 131-133
Clean ==
    /\ pc = "clean"
    /\ cleaned_pdf_value' =
          clean_extracted_text(join(<<" ">>, pdf_raw_data["value"]), FALSE)
    /\ cleaned_pdf_change' =
          clean_extracted_text(join(<<" ">>, pdf_raw_data["change"]), FALSE)
    /\ cleaned_pdf_accounts' =
          clean_extracted_text(join(<<" ">>, pdf_raw_data["account_num"]), TRUE)
    /\ pc' = "combine"
    /\ UNCHANGED << excel_file, pdf_file, heap, excel_account, df_excel,
                    excel_account_info_list, pdf_raw_data, combined_quantity,
                    combined_prix_revient, combined_accounts_identifiers,
                    final_data_rows, max_rows, i, account_id, account_template,
                    printed, csv_file, helperVars >>

\* col in df.columns
HasColumn(df, col) == \E k \in 1..Len(df.columns) : df.columns[k] = col

\* df[col][0]
FirstOf(df, col) ==
    df.rows[1][CHOOSE k \in 1..Len(df.columns) : df.columns[k] = col]

\* lines 137 and 142: the guard of the two appends
ExcelHas(df, col) == df # NoneDF /\ Len(df.rows) > 0 /\ HasColumn(df, col)

\* lines 136-149
Combine ==
    /\ pc = "combine"
    /\ combined_quantity' =
          (IF ExcelHas(df_excel, EXCEL_VALUE_COL)
           THEN <<FirstOf(df_excel, EXCEL_VALUE_COL)>> ELSE <<>>)
          \o [k \in 1..Len(cleaned_pdf_value) |-> PyStr(cleaned_pdf_value[k])]
    /\ combined_prix_revient' =
          (IF ExcelHas(df_excel, EXCEL_CHANGE_COL)
           THEN <<FirstOf(df_excel, EXCEL_CHANGE_COL)>> ELSE <<>>)
          \o [k \in 1..Len(cleaned_pdf_change) |-> PyStr(cleaned_pdf_change[k])]
    /\ combined_accounts_identifiers' =
          (IF excel_account # None THEN <<excel_account>> ELSE <<>>)
          \o [k \in 1..Len(cleaned_pdf_accounts) |-> PyStr(cleaned_pdf_accounts[k])]
    /\ pc' = "pad"
    /\ UNCHANGED << excel_file, pdf_file, heap, excel_account, df_excel,
                    excel_account_info_list, pdf_raw_data, cleaned_pdf_value,
                    cleaned_pdf_change, cleaned_pdf_accounts, final_data_rows,
                    max_rows, i, account_id, account_template, printed, csv_file,
                    helperVars >>

\* lines 152-159
Pad ==
    /\ pc = "pad"
    /\ LET r == combine_and_pad_lists(<<combined_quantity, combined_prix_revient,
                                        combined_accounts_identifiers>>)
           padded_dynamic_lists == r.ret
       IN IF Len(padded_dynamic_lists) < 3
          THEN /\ pc' = "crashed"
               /\ UNCHANGED << combined_quantity, combined_prix_revient,
                               combined_accounts_identifiers, final_data_rows,
                               max_rows, i >>
          ELSE /\ combined_quantity' = padded_dynamic_lists[1]
               /\ combined_prix_revient' = padded_dynamic_lists[2]
               /\ combined_accounts_identifiers' = padded_dynamic_lists[3]
               /\ final_data_rows' = <<>>
               /\ max_rows' = Len(padded_dynamic_lists[3])
               /\ i' = 0
               /\ pc' = "loop"
    /\ UNCHANGED << excel_file, pdf_file, heap, excel_account, df_excel,
                    excel_account_info_list, pdf_raw_data, cleaned_pdf_value,
                    cleaned_pdf_change, cleaned_pdf_accounts, account_id,
                    account_template, printed, csv_file, helperVars >>

\* lines 161-165: the next row's identifier and its template
LoopLookup ==
    /\ pc = "loop"
    /\ i < max_rows
    /\ account_id' = combined_accounts_identifiers[i + 1]
    /\ LET r == lookup_account_info(account_id', LOOKUP_TABLE, heap)
       IN /\ heap' = r.heap
          /\ account_template' = r.ret
    /\ pc' = "override"
    /\ UNCHANGED << excel_file, pdf_file, excel_account, df_excel,
                    excel_account_info_list, pdf_raw_data, cleaned_pdf_value,
                    cleaned_pdf_change, cleaned_pdf_accounts, combined_quantity,
                    combined_prix_revient, combined_accounts_identifiers,
                    final_data_rows, max_rows, i, printed, csv_file, helperVars >>

\* lines 169-172: the two assignments through the reference account_template
Override(h, template, row, quantity, prix_revient) ==
    LET h1 == IF row < Len(quantity)
              THEN [h EXCEPT ![template][11] = quantity[row + 1]] ELSE h
    IN IF row < Len(prix_revient)
       THEN [h1 EXCEPT ![template][12] = prix_revient[row + 1]] ELSE h1

LoopOverride ==
    /\ pc = "override"
    /\ heap' = Override(heap, account_template, i, combined_quantity,
                        combined_prix_revient)
    /\ pc' = "append"
    /\ UNCHANGED << excel_file, pdf_file, mainLocals, helperVars >>

\* line 174, and the step of the for loop
LoopAppend ==
    /\ pc = "append"
    /\ final_data_rows' = Append(final_data_rows, account_template)
    /\ i' = i + 1
    /\ pc' = "loop"
    /\ UNCHANGED << excel_file, pdf_file, heap, excel_account, df_excel,
                    excel_account_info_list, pdf_raw_data, cleaned_pdf_value,
                    cleaned_pdf_change, cleaned_pdf_accounts, combined_quantity,
                    combined_prix_revient, combined_accounts_identifiers, max_rows,
                    account_id, account_template, printed, csv_file, helperVars >>

\* the rows as the DataFrame and the file get them: each reference followed
RowsOf(h, rows) == [k \in 1..Len(rows) |-> h[rows[k]]]

\* lines 177-203
Save ==
    /\ pc = "loop"
    /\ i >= max_rows
    /\ IF final_data_rows # <<>>
       THEN /\ csv_file' = [written |-> TRUE, rows |-> RowsOf(heap, final_data_rows)]
            /\ printed' = printed \o <<"Combined PDF and Excel Data:",
                      "Data saved to extracted_data_with_full_details.csv">>
       ELSE /\ csv_file' = csv_file
            /\ printed' = Append(printed,
                      "No meaningful data extracted from PDF or Excel file.")
    /\ pc' = "done"
    /\ UNCHANGED << excel_file, pdf_file, heap, excel_account, df_excel,
                    excel_account_info_list, pdf_raw_data, cleaned_pdf_value,
                    cleaned_pdf_change, cleaned_pdf_accounts, combined_quantity,
                    combined_prix_revient, combined_accounts_identifiers,
                    final_data_rows, max_rows, i, account_id, account_template,
                    helperVars >>

Next ==
    \/ ReadExcel
    \/ LookupExcel
    \/ ExtractPdf
    \/ Clean
    \/ Combine
    \/ Pad
    \/ LoopLookup
    \/ LoopOverride
    \/ LoopAppend
    \/ Save

Spec == Init /\ [][Next]_vars

(***************************************************************************)
(* clean_extracted_text run by itself on every text of the bound.          *)
(***************************************************************************)
InitClean ==
    /\ pc = "clean_call"
    /\ excel_file = MissingExcel
    /\ pdf_file = MissingPdf
    /\ InitLocals
    /\ clean_text \in Texts
    /\ clean_is_account \in BOOLEAN
    /\ clean_ret = <<>>
    /\ pad_in = <<>>
    /\ pad_lists = <<>>
    /\ pad_ret = <<>>

CleanCall ==
    /\ pc = "clean_call"
    /\ clean_ret' = clean_extracted_text(clean_text, clean_is_account)
    /\ pc' = "clean_ret"
    /\ UNCHANGED << excel_file, pdf_file, heap, mainLocals, clean_text,
                    clean_is_account, pad_in, pad_lists, pad_ret >>

SpecClean == InitClean /\ [][CleanCall]_vars

(***************************************************************************)
(* combine_and_pad_lists run by itself on every list of lists of the bound. *)
(***************************************************************************)
InitPad ==
    /\ pc = "pad_call"
    /\ excel_file = MissingExcel
    /\ pdf_file = MissingPdf
    /\ InitLocals
    /\ clean_text = <<>>
    /\ clean_is_account = FALSE
    /\ clean_ret = <<>>
    /\ pad_in \in PadInputs
    /\ pad_lists = pad_in
    /\ pad_ret = <<>>

PadCall ==
    /\ pc = "pad_call"
    /\ LET r == combine_and_pad_lists(pad_lists)
       IN /\ pad_lists' = r.args
          /\ pad_ret' = r.ret
    /\ pc' = "pad_ret"
    /\ UNCHANGED << excel_file, pdf_file, heap, mainLocals, clean_text,
                    clean_is_account, clean_ret, pad_in >>

SpecPad == InitPad /\ [][PadCall]_vars

(***************************************************************************)
(* Properties.                                                             *)
(***************************************************************************)
LoopFinished == pc = "done" \/ (pc = "loop" /\ i >= max_rows)
Padded == pc \in {"loop", "override", "append", "done"}
BothMissing == ~excel_file.exists /\ ~pdf_file.exists

\* C1: the lookup table is never modified: every list the table holds keeps the
\* fields it had at import, whatever lookups and overrides have run.
C1_TableNeverModified ==
    \A key \in DOMAIN LOOKUP_TABLE :
        heap[LOOKUP_TABLE[key]] = InitHeap[LOOKUP_TABLE[key]]

\* C2: when the row-assembly loop has finished, row k of the output table has the
\* k-th padded quantity in field 10 and the k-th padded cost basis in field 11.
C2_RowsKeepTheirValues ==
    LoopFinished =>
        \A k \in 1..Len(final_data_rows) :
            /\ heap[final_data_rows[k]][11] = combined_quantity[k]
            /\ heap[final_data_rows[k]][12] = combined_prix_revient[k]

ExcelPart(present, v) == IF present THEN <<v>> ELSE <<>>

AllNonEmpty(lines) == \A k \in 1..Len(lines) : strip(lines[k]) # <<>>
AllHaveDigit(lines) == \A k \in 1..Len(lines) : HasDigit(lines[k])

\* C3: each line a PDF rectangle yields is one entry of its combined sequence: the
\* spreadsheet scalar (if present), then one entry per line, in order.
C3_OneEntryPerLine ==
    pc = "pad" =>
        /\ AllNonEmpty(pdf_raw_data["account_num"]) =>
              combined_accounts_identifiers =
                  ExcelPart(excel_account # None, excel_account)
                  \o [k \in 1..Len(pdf_raw_data["account_num"]) |->
                          PyStr(strip(pdf_raw_data["account_num"][k]))]
        /\ AllHaveDigit(pdf_raw_data["value"]) =>
              combined_quantity =
                  ExcelPart(ExcelHas(df_excel, EXCEL_VALUE_COL), ExcelQuantity)
                  \o [k \in 1..Len(pdf_raw_data["value"]) |->
                          PyStr(CleanEntry(strip(pdf_raw_data["value"][k])))]
        /\ AllHaveDigit(pdf_raw_data["change"]) =>
              combined_prix_revient =
                  ExcelPart(ExcelHas(df_excel, EXCEL_CHANGE_COL), ExcelValorisation)
                  \o [k \in 1..Len(pdf_raw_data["change"]) |->
                          PyStr(CleanEntry(strip(pdf_raw_data["change"][k])))]

\* the input of the end-to-end example
EndToEndInput ==
    /\ excel_file.exists
    /\ excel_file.sheet_I = DataFrame(<<"I">>, << <<PyStr(Key193)>> >>)
    /\ excel_file.sheet_LM = DataFrame(<<EXCEL_VALUE_COL, EXCEL_CHANGE_COL>>,
                                       << <<ExcelQuantity, ExcelValorisation>> >>)
    /\ pdf_file.exists
    /\ pdf_file.pages[1].value = <<"1", ".", "5", "0", "0", ",", "0", "0">>
    /\ pdf_file.pages[1].account_num = <<"1", "0", "0", "1", "2", "3", "4", "5", "6">>

\* row is the template but for fields 10 and 11, and field 10 is quantity
BuiltFrom(row, template, quantity) ==
    /\ Len(row) = NFIELDS
    /\ \A f \in (1..NFIELDS) \ {11, 12} : row[f] = template[f]
    /\ row[11] = quantity

EndToEndRows(quantity1) ==
    (pc = "done" /\ EndToEndInput) =>
        /\ csv_file.written
        /\ Len(csv_file.rows) = 2
        /\ BuiltFrom(csv_file.rows[1], Template193, ExcelQuantity)
        /\ BuiltFrom(csv_file.rows[2], Template100, PyStr(quantity1))

\* C4 as stated: on the end-to-end input the output has two rows, row 0 the "193"
\* template with the spreadsheet's quantity, row 1 the "100" template with
\* quantity "1500.00".
C4_EndToEnd_AsStated == EndToEndRows(<<"1", "5", "0", "0", ".", "0", "0">>)

\* C4 amended: the same, with the quantity of row 1 being "1.500.00" (the comma
\* becomes a period and the period already there stays).
C4_EndToEnd == EndToEndRows(<<"1", ".", "5", "0", "0", ".", "0", "0">>)

C4_Witness == pc = "done" /\ EndToEndInput /\ csv_file.written

\* what the numeric path keeps according to the claim
ClaimedKeep(c) == IsDigit(c) \/ c \in {".", "€", "E", "U", "R"}

RECURSIVE ClaimedNumeric(_)
ClaimedNumeric(lines) ==
    IF lines = <<>> THEN <<>>
    ELSE LET entry == SelectSeq(replace(replace(Head(lines), " ", <<>>), ",", <<".">>),
                                ClaimedKeep)
         IN (IF HasDigit(entry) THEN <<entry>> ELSE <<>>) \o ClaimedNumeric(Tail(lines))

\* C5: on the numeric path every line loses its spaces, has its commas turned into
\* periods and keeps exactly its digits, periods, Euro signs and letters E, U, R;
\* the result is in the output iff it has a digit.
C5_NumericAllowlist ==
    (pc = "clean_ret" /\ ~clean_is_account) =>
        clean_ret = ClaimedNumeric(StrippedLines(clean_text))

\* where entry k of a combined sequence comes from
SourceAt(hasExcel, nPdf, k) ==
    IF hasExcel /\ k = 1 THEN "excel"
    ELSE IF k <= (IF hasExcel THEN 1 ELSE 0) + nPdf THEN "pdf"
    ELSE "pad"

RowSources(k) ==
    { SourceAt(ExcelHas(df_excel, EXCEL_VALUE_COL), Len(cleaned_pdf_value), k),
      SourceAt(ExcelHas(df_excel, EXCEL_CHANGE_COL), Len(cleaned_pdf_change), k),
      SourceAt(excel_account # None, Len(cleaned_pdf_accounts), k) }

\* C6: after padding, the quantity, cost basis and identifier of one row come from
\* one source: all from the spreadsheet or all from the PDF, padding aside.
C6_RowAlignedBySource ==
    Padded => \A k \in 1..max_rows : Cardinality(RowSources(k) \ {"pad"}) <= 1

IsMiss(id) == id # None /\ FirstThree(strip(str(id))) \notin DOMAIN LOOKUP_TABLE

LookupResultOk(id, record) ==
    /\ id = None => record = [f \in 1..13 |-> None]
    /\ IsMiss(id) =>
          record = [f \in 1..13 |-> IF f = 3 THEN PyStr(strip(str(id))) ELSE None]

\* C7: a lookup, whatever lookups and overrides came before it, returns for an
\* absent identifier 13 absent fields and for an identifier whose key is not in the
\* table 13 absent fields but field 2, the identifier's trimmed string form.
C7_LookupAbsentAndMiss ==
    /\ pc = "extract_pdf" => LookupResultOk(excel_account, heap[excel_account_info_list])
    /\ pc = "override" => LookupResultOk(account_id, heap[account_template])

C7_Witness ==
    /\ pc = "override"
    /\ i >= 1
    /\ IsMiss(account_id)
    /\ \E key \in DOMAIN LOOKUP_TABLE :
          heap[LOOKUP_TABLE[key]] # InitHeap[LOOKUP_TABLE[key]]

\* C8: every row of the output has 13 fields and none of them is an empty string.
C8_NoEmptyStringField ==
    \A k \in 1..Len(csv_file.rows) :
        /\ Len(csv_file.rows[k]) = NFIELDS
        /\ \A f \in 1..NFIELDS : csv_file.rows[k][f] # PyStr(<<>>)

Count(seq, x) == Cardinality({k \in 1..Len(seq) : seq[k] = x})

\* C9: with both input files missing every reader reports its error and none
\* raises, the three combined sequences are empty, no row is built, no file is
\* written, the "no meaningful data" message is printed and main runs to its end.
C9_BothFilesMissing ==
    BothMissing =>
        /\ pc # "crashed"
        /\ pc # "read_excel" => Count(printed, "Error: Excel file not found") = 2
        /\ pc \in {"clean", "combine", "pad", "loop", "done"} =>
              Count(printed, "Error: PDF file not found")
                  + Count(printed, "Error processing PDF") = 1
        /\ pc \in {"pad", "loop", "done"} =>
              /\ combined_quantity = <<>>
              /\ combined_prix_revient = <<>>
              /\ combined_accounts_identifiers = <<>>
        /\ pc \notin {"override", "append"}
        /\ final_data_rows = <<>>
        /\ csv_file = NotWritten
        /\ pc = "done" =>
              printed[Len(printed)] = "No meaningful data extracted from PDF or Excel file."
        /\ pc # "done" => ENABLED Next

C9_Witness == BothMissing /\ pc = "done"

\* C10: combine_and_pad_lists returns as many sequences as it was given, all of the
\* maximum input length, each its input followed by absent markers only; the inputs
\* are left as they were, and no sequences give an empty result.
C10_PadContract ==
    pc = "pad_ret" =>
        /\ Len(pad_ret) = Len(pad_in)
        /\ pad_in = <<>> => pad_ret = <<>>
        /\ pad_lists = pad_in
        /\ \A j \in 1..Len(pad_ret) :
              /\ \A k \in 1..Len(pad_in) : Len(pad_in[k]) <= Len(pad_ret[j])
              /\ \E k \in 1..Len(pad_in) : Len(pad_in[k]) = Len(pad_ret[j])
              /\ SubSeq(pad_ret[j], 1, Len(pad_in[j])) = pad_in[j]
              /\ \A k \in (Len(pad_in[j]) + 1)..Len(pad_ret[j]) : pad_ret[j][k] = None

C10_Witness ==
    /\ pc = "pad_ret"
    /\ \E j, k \in 1..Len(pad_in) : Len(pad_in[j]) < Len(pad_in[k])
    /\ \E j \in 1..Len(pad_ret) : Len(pad_ret[j]) > Len(pad_in[j])

=============================================================================
